---- MODULE Spec2Model ----
(***************************************************************************)
(* glacier-rsync-encrypted: the archive pipeline of src/src/backup_util.py *)
(* (BackupUtil.backup and the multipart upload session of                  *)
(* BackupUtil._backup), the sync_history ledger, and the archive service   *)
(* the pipeline talks to.                                                  *)
(*                                                                         *)
(* Bytes are small naturals, a file's content is a sequence of bytes, a    *)
(* part size counts bytes.  SHA-256 is a free constructor (no collisions). *)
(* Files change by atomic replacement (a new inode under the same path),   *)
(* so an already opened file object keeps the bytes it was opened on       *)
(* while os.stat sees the new size and mtime.                              *)
(***************************************************************************)
EXTENDS Integers, Sequences, FiniteSets, TLC

\* ---------------------------------------------------------------- bounds
MaxLen == 3        \* longest file content, in bytes
MaxRuns == 2       \* backup() runs in one behaviour
MaxMods == 1       \* file replacements in one behaviour
MaxPart == 5       \* longest part given to calculate_tree_hash
\* the sub-block of a part's tree hash, 1024 * 1024 bytes in
\* calculate_tree_hash, scaled to the parts here
SubBlock == 2
MaxParts == 2      \* parts of the stream given to _backup on its own
MaxUploads == 2    \* uploads in one answer of list_multipart_uploads
MaxReads == 5      \* read calls made of one FileCache
MaxReadSize == 3   \* largest n given to FileCache.read
\* write_size of read_to_iter, 8192 in FileCache, scaled to the streams here
WriteSize == 2
MaxChecksums == 4  \* longest list given to calculate_total_tree_hash
MaxFileSize == 40  \* largest file_size given to decide_part_size
MaxBase == 3       \* largest configured part size given to decide_part_size
MaxDoublings == 6  \* doublings looked at when a part size is examined
\* the service's limit on the number of parts of one upload, 10000 in
\* decide_part_size, scaled to the file lengths above
PartLimit == 2
\* the bits of a float's significand, 53 in Python, scaled likewise, and
\* the binary exponents looked at when a quotient is rounded
SignificandBits == 4
MaxExponent == 8

\* for retry in range(upload_part_retries)
upload_part_retries == 3

\* os.walk listing of args.src: the paths, in listing order
FileList == <<"a", "b">>
Paths == {FileList[i] : i \in 1..Len(FileList)}
\* the command lines tried: args.part_size, args.encrypt, args.compress
Args ==
    {[part_size |-> 1, encrypt |-> FALSE, compress |-> FALSE],
     [part_size |-> 2, encrypt |-> FALSE, compress |-> FALSE],
     [part_size |-> 2, encrypt |-> TRUE, compress |-> FALSE],
     [part_size |-> 2, encrypt |-> FALSE, compress |-> TRUE],
     [part_size |-> 2, encrypt |-> TRUE, compress |-> TRUE]}

None == "None"
\* an optional record (an archive or None) is a sequence of at most one
Nothing == <<>>
Some(x) == <<x>>

\* ------------------------------------------------------------ file system
\* content of length n: every byte is b
MkContent(n, b) == [i \in 1..n |-> b]
\* the files under args.src when the first run starts
InitialFiles == [a |-> MkContent(MaxLen, 0), b |-> MkContent(0, 0)]

\* -------------------------------------------------------------- transforms
\* Fernet token: a header (version, timestamp, IV) followed by the
\* ciphertext of every byte; always longer than the plaintext.
FernetEncrypt(content) == <<9>> \o [i \in 1..Len(content) |-> content[i] + 2]

\* zstd frame: a header, then one symbol per run of equal bytes
\* (symbol = 10 + byte + 4 * run length); never empty.
RECURSIVE RunLen(_, _)
RunLen(s, i) ==
    IF i < Len(s) /\ s[i + 1] = s[i] THEN 1 + RunLen(s, i + 1) ELSE 1
RECURSIVE ZstdRuns(_, _)
ZstdRuns(s, i) ==
    IF i > Len(s) THEN <<>>
    ELSE <<10 + s[i] + 4 * RunLen(s, i)>> \o ZstdRuns(s, i + RunLen(s, i))
ZstdCompress(data) == <<7>> \o ZstdRuns(data, 1)

\* ------------------------------------------------------------------ hashes
\* hashlib.sha256(bytes).digest(): one 32-byte digest, kept as a 1-element
\* byte string so that digests concatenate with \o as byte strings do
Sha256(bytes) == <<[sha256 |-> bytes]>>
\* binascii.hexlify / unhexlify between raw digests and hex strings
Hexlify(raw) == [hex |-> raw]
Unhexlify(h) == h.hex
\* the checksum the service returns for a part: the hex tree hash of its body
PartChecksum(body) == Hexlify(<<[tree |-> body]>>)

\* mutant: the for loop is left after the first pair of a level
TreeLevel_FirstPairOnly(binary_hashes) ==
    <<Sha256(IF Len(binary_hashes) >= 2
             THEN binary_hashes[1] \o binary_hashes[2]
             ELSE binary_hashes[1])>>

\* one level of calculate_total_tree_hash: pairs are concatenated and
\* hashed, a last unpaired digest is hashed on its own
TreeLevel(binary_hashes) ==
    [k \in 1..((Len(binary_hashes) + 1) \div 2) |->
        LET i == 2 * k - 1
            combined == IF i + 1 <= Len(binary_hashes)
                        THEN binary_hashes[i] \o binary_hashes[i + 1]
                        ELSE binary_hashes[i]
        IN  Sha256(combined)]
RECURSIVE TreeReduce(_)
TreeReduce(binary_hashes) ==
    IF Len(binary_hashes) > 1 THEN TreeReduce(TreeLevel(binary_hashes))
    ELSE binary_hashes
calculate_total_tree_hash(hex_checksums) ==
    LET binary_hashes == [i \in 1..Len(hex_checksums) |-> Unhexlify(hex_checksums[i])]
        top == TreeReduce(binary_hashes)
    IN  IF Len(top) > 0 THEN Hexlify(top[1]) ELSE ""

\* calculate_total_tree_hash of glacier_rsync/backup_util.py, on hex strings:
\* pairs are concatenated and hashed, a last unpaired checksum is carried
\* to the next level as it is; tree[0] of an empty list is an IndexError
FoldLevel(tree) ==
    [k \in 1..((Len(tree) + 1) \div 2) |->
        LET i == 2 * k - 1
        IN  IF i < Len(tree)
            THEN Hexlify(Sha256(Unhexlify(tree[i]) \o Unhexlify(tree[i + 1])))
            ELSE tree[i]]
RECURSIVE FoldReduce(_)
FoldReduce(tree) ==
    IF Len(tree) > 1 THEN FoldReduce(FoldLevel(tree)) ELSE tree
FoldChecksums(checksums) == FoldReduce(checksums)[1]

\* ------------------------------------------------------------------ ledger
\* mutant: the SELECT without the mtime column
MatchingRows_NoMtime(rows, path, size, mt) ==
    {i \in 1..Len(rows) : rows[i].path = path /\ rows[i].file_size = size}
\* SELECT * FROM sync_history WHERE path=? AND file_size=? AND mtime=?
MatchingRows(rows, path, size, mt) ==
    {i \in 1..Len(rows) :
        rows[i].path = path /\ rows[i].file_size = size /\ rows[i].mtime = mt}
\* mutant: len(rows) > 1
IsBackedUp_Several(rows, path, size, mt) ==
    Cardinality(MatchingRows(rows, path, size, mt)) > 1
\* len(rows) > 0
IsBackedUp(rows, path, size, mt) == MatchingRows(rows, path, size, mt) # {}

\* -------------------------------------------------------------- part size
\* file_size / part_size: the true division of two ints gives the float
\* nearest to the quotient (ties to even).  A float is kept as <<m, s>>,
\* standing for m / 2^s (m * 2^-s when s < 0), with m of SignificandBits bits
RECURSIVE Pow2(_)
Pow2(k) == IF k = 0 THEN 1 ELSE 2 * Pow2(k - 1)
RoundHalfEven(num, den) ==
    LET q == num \div den
        r == num % den
    IN  IF 2 * r > den \/ (2 * r = den /\ q % 2 = 1) THEN q + 1 ELSE q
Scaled(a, b, e) ==
    IF e >= 0 THEN [num |-> a * Pow2(e), den |-> b]
    ELSE [num |-> a, den |-> b * Pow2(-e)]
TrueDiv(a, b) ==
    IF a = 0 THEN <<0, 0>>
    ELSE LET e == CHOOSE x \in (-MaxExponent)..MaxExponent :
                      LET f == Scaled(a, b, x)
                      IN  /\ Pow2(SignificandBits - 1) * f.den <= f.num
                          /\ f.num < Pow2(SignificandBits) * f.den
             f == Scaled(a, b, e)
         IN  <<RoundHalfEven(f.num, f.den), e>>
\* float > int
FloatGreater(x, n) ==
    IF x[2] >= 0 THEN x[1] > n * Pow2(x[2]) ELSE x[1] * Pow2(-x[2]) > n

\* decide_part_size of glacier_rsync/backup_util.py:
\*   part_size = self.part_size
\*   while file_size / part_size > 10000: part_size *= 2
RECURSIVE DoubleWhile(_, _)
DoubleWhile(p, size) ==
    IF FloatGreater(TrueDiv(size, p), PartLimit) THEN DoubleWhile(2 * p, size) ELSE p
decide_part_size(self_part_size, size) == DoubleWhile(self_part_size, size)

\* ----------------------------------------------------------------- service
\* what a call to the archive service can do: succeed, raise a ClientError
\* with a retryable (throttling) or a terminal (e.g. access denied) error
\* code, or raise another exception (e.g. a connection error)
Outcomes == {"ok", "retryable", "terminal", "other"}
IsClientError(o) == o \in {"retryable", "terminal"}

VARIABLES
    \* BackupUtil fields
    continue_running, part_size, encrypt, compress, current_file,
    \* sync_history table, file system
    ledger, fs,
    \* backup(): position, loop index, locals
    pc, run, idx, file_size, mtime,
    \* _backup(): locals
    src_file_object, pos, upload_id, byte_pos, list_of_checksums,
    chunk, range_header, retry, archive,
    \* archive service: open sessions, completed archives
    open, archives,
    \* history of the current file's session
    attempts, sent, maxTries, aborts, completes, completeArgs, outcome,
    \* history of the behaviour
    mods, modified,
    \* a function called on its own: the call and what it returned
    call, ret,
    \* a FileCache object and the reads made of it: (n, what read(n) returned)
    cache, reads,
    \* main(): the signals counted, and the sqlite3 connection of the object
    stop_request_count, conn

objVars == <<continue_running, part_size, encrypt, compress, current_file>>
envVars == <<ledger, fs>>
loopVars == <<pc, run, idx, file_size, mtime>>
upVars == <<src_file_object, pos, upload_id, byte_pos, list_of_checksums,
            chunk, range_header, retry, archive>>
svcVars == <<open, archives>>
sessHist == <<attempts, sent, maxTries, aborts, completes, completeArgs, outcome>>
runHist == <<mods, modified>>
\* written by main() and its signal handler only
sigVars == <<stop_request_count, conn>>
pipeVars == <<objVars, envVars, loopVars, upVars, svcVars, sessHist, runHist, sigVars>>
cacheVars == <<cache, reads>>
fnVars == <<call, ret, cacheVars, sigVars>>
vars == <<pipeVars, fnVars>>

\* os.stat(path): (st_size, st_mtime)
get_stats(path) == <<Len(fs[path].content), fs[path].mtime>>

NoRange == [first |-> 0, last |-> -1]

PipeInit ==
    /\ continue_running = TRUE
    /\ \E args \in Args :
          /\ part_size = args.part_size
          /\ encrypt = args.encrypt
          /\ compress = args.compress
    /\ current_file = None
    /\ ledger = <<>>
    /\ fs = [p \in Paths |-> [content |-> InitialFiles[p], mtime |-> 1]]
    /\ pc = "idle"
    /\ run = 0
    /\ idx = 1
    /\ file_size = 0
    /\ mtime = 0
    /\ src_file_object = <<>>
    /\ pos = 0
    /\ upload_id = 0
    /\ byte_pos = 0
    /\ list_of_checksums = <<>>
    /\ chunk = <<>>
    /\ range_header = NoRange
    /\ retry = 0
    /\ archive = Nothing
    /\ open = {}
    /\ archives = {}
    /\ attempts = <<>>
    /\ sent = <<>>
    /\ maxTries = 0
    /\ aborts = 0
    /\ completes = 0
    /\ completeArgs = Nothing
    /\ outcome = None
    /\ mods = 0
    /\ modified = {}
    /\ stop_request_count = 0
    /\ conn = "open"

\* the pipeline on its own: no function is called apart from it
Init ==
    /\ PipeInit
    /\ call = Nothing
    /\ ret = Nothing
    /\ cache = Nothing
    /\ reads = <<>>

\* mutant: the session id of the file just finished is kept in hand
FinishFile_KeepSession(result) ==
    /\ outcome' = result
    /\ attempts' = <<>>
    /\ sent' = <<>>
    /\ maxTries' = 0
    /\ aborts' = 0
    /\ completes' = 0
    /\ completeArgs' = Nothing
    /\ idx' = idx + 1
    /\ pc' = "loop"
    /\ src_file_object' = <<>>
    /\ pos' = 0
    /\ upload_id' = upload_id
    /\ byte_pos' = 0
    /\ list_of_checksums' = <<>>
    /\ chunk' = <<>>
    /\ range_header' = NoRange
    /\ retry' = 0
    /\ archive' = Nothing

\* ----------------------------------------------------------------- backup()
\* mutant: the loop is left (break) when a file could not be backed up
FinishFile_BreakOnFailure(result) ==
    /\ outcome' = result
    /\ attempts' = <<>>
    /\ sent' = <<>>
    /\ maxTries' = 0
    /\ aborts' = 0
    /\ completes' = 0
    /\ completeArgs' = Nothing
    /\ idx' = idx + 1
    /\ pc' = IF result = "failed" THEN "idle" ELSE "loop"
    /\ src_file_object' = <<>>
    /\ pos' = 0
    /\ upload_id' = 0
    /\ byte_pos' = 0
    /\ list_of_checksums' = <<>>
    /\ chunk' = <<>>
    /\ range_header' = NoRange
    /\ retry' = 0
    /\ archive' = Nothing

\* the end of a loop iteration: pbar.update(1), on to the next file; the
\* locals of _backup are gone and the session's history with them
FinishFile(result) ==
    /\ outcome' = result
    /\ attempts' = <<>>
    /\ sent' = <<>>
    /\ maxTries' = 0
    /\ aborts' = 0
    /\ completes' = 0
    /\ completeArgs' = Nothing
    /\ idx' = idx + 1
    /\ pc' = "loop"
    /\ src_file_object' = <<>>
    /\ pos' = 0
    /\ upload_id' = 0
    /\ byte_pos' = 0
    /\ list_of_checksums' = <<>>
    /\ chunk' = <<>>
    /\ range_header' = NoRange
    /\ retry' = 0
    /\ archive' = Nothing

\* _backup returns to backup() with an archive or with None
Return(result) ==
    /\ pc' = "returned"
    /\ archive' = result

\* BackupUtil(args) in a new process: the stop flag starts cleared
Construct ==
    /\ pc \in {"idle", "exited", "raised"}
    /\ run >= 1
    /\ pc' = "idle"
    /\ continue_running' = TRUE
    /\ current_file' = None
    /\ UNCHANGED <<part_size, encrypt, compress, envVars, run, idx, file_size,
                   mtime, upVars, svcVars, sessHist, runHist>>
    /\ UNCHANGED fnVars

\* backup() is entered: the file list is built
StartRun ==
    /\ pc = "idle"
    /\ run < MaxRuns
    /\ run' = run + 1
    /\ idx' = 1
    /\ pc' = "loop"
    /\ outcome' = None
    /\ UNCHANGED <<objVars, envVars, file_size, mtime, upVars, svcVars, attempts,
                   sent, maxTries, aborts, completes, completeArgs, mods, modified>>
    /\ UNCHANGED fnVars

\* the for loop ends: every file of the list was visited
RunEnd ==
    /\ pc = "loop"
    /\ idx > Len(FileList)
    /\ pc' = "idle"
    /\ current_file' = None
    /\ UNCHANGED <<continue_running, part_size, encrypt, compress, envVars, run,
                   idx, file_size, mtime, upVars, svcVars, sessHist, runHist>>
    /\ UNCHANGED fnVars

\* mutant: the flag is not looked at
StopRequested_Ignored == FALSE

\* if not self.continue_running
StopRequested == ~continue_running

\* if not self.continue_running: break
StopBreak ==
    /\ pc = "loop"
    /\ idx <= Len(FileList)
    /\ StopRequested
    /\ pc' = "idle"
    /\ current_file' = None
    /\ UNCHANGED <<continue_running, part_size, encrypt, compress, envVars, run,
                   idx, file_size, mtime, upVars, svcVars, sessHist, runHist>>
    /\ UNCHANGED fnVars

\* _check_if_backed_up(file) and the branch on its result; dbok = FALSE is
\* an sqlite3.OperationalError on the SELECT, which ends in sys.exit(3)
CheckIfBackedUp(dbok) ==
    /\ pc = "loop"
    /\ idx <= Len(FileList)
    /\ ~StopRequested
    /\ LET file == FileList[idx]
           st == get_stats(file)
       IN  /\ current_file' = file
           /\ file_size' = st[1]
           /\ mtime' = st[2]
           /\ IF ~dbok
              THEN /\ pc' = "exited"
                   /\ outcome' = "db_error"
                   /\ UNCHANGED <<idx, upVars, attempts, sent, maxTries, aborts,
                                  completes, completeArgs>>
              ELSE IF IsBackedUp(ledger, file, st[1], st[2])
              THEN FinishFile("skipped")
              ELSE /\ pc' = "compress"
                   /\ outcome' = None
                   /\ UNCHANGED <<idx, upVars, attempts, sent, maxTries, aborts,
                                  completes, completeArgs>>
    /\ UNCHANGED <<continue_running, part_size, encrypt, compress, envVars, run,
                   svcVars, runHist>>
    /\ UNCHANGED fnVars

\* _compress(file): open, encrypt the whole content, compress the whole
\* content.  A failure to open, encrypt or compress returns (None, None),
\* on which _backup returns None at once; a missing zstandard module
\* raises ValueError out of backup()
CompressOutcomes ==
    {"ok", "open_error"}
        \cup (IF encrypt THEN {"encrypt_error"} ELSE {})
        \cup (IF compress THEN {"import_error", "compress_error"} ELSE {})
ApplyTransforms(enc, comp, content) ==
    LET e == IF enc THEN FernetEncrypt(content) ELSE content
    IN  IF comp THEN ZstdCompress(e) ELSE e
Transformed(content) == ApplyTransforms(encrypt, compress, content)
\* glacier_rsync/backup_util.py _compress: with compression the object to
\* upload is BytesIO(file_object.read()), the bytes as they are
ApplyTransformsLegacy(enc, comp, content) ==
    IF enc THEN FernetEncrypt(content) ELSE content
Compress(o) ==
    /\ pc = "compress"
    /\ o \in CompressOutcomes
    /\ IF o = "ok"
       THEN /\ src_file_object' = Transformed(fs[current_file].content)
            /\ pos' = 0
            /\ pc' = "initiate"
            /\ UNCHANGED <<idx, outcome, upload_id, byte_pos, list_of_checksums,
                           chunk, range_header, retry, archive>>
       ELSE IF o = "import_error"
       THEN /\ pc' = "raised"
            /\ outcome' = "raised"
            /\ UNCHANGED <<idx, upVars>>
       ELSE /\ Return(Nothing)
            /\ UNCHANGED <<idx, outcome, src_file_object, pos, upload_id, byte_pos,
                           list_of_checksums, chunk, range_header, retry>>
    /\ UNCHANGED <<objVars, envVars, run, file_size, mtime, svcVars,
                   attempts, sent, maxTries, aborts, completes, completeArgs, runHist>>
    /\ UNCHANGED fnVars

\* ---------------------------------------------------------------- _backup()
\* the opaque upload id the service issues: never issued before (each
\* file of each run initiates at most once)
NewUploadId == 10 * run + idx

\* mutant: the handlers abort although no upload id was returned
OnInitiateFailure_Abort == "abort"

\* the outer handlers with upload_id still None: 'if upload_id' is false,
\* return None
OnInitiateFailure == "returned"

\* glacier.initiate_multipart_upload; any exception leaves upload_id None,
\* so nothing is aborted and _backup returns None
Initiate(o) ==
    /\ pc = "initiate"
    /\ o \in Outcomes
    /\ IF o = "ok"
       THEN /\ upload_id' = NewUploadId
            /\ open' = open \cup {[id |-> NewUploadId, partSize |-> part_size,
                                   description |-> <<current_file, file_size, mtime>>]}
            /\ byte_pos' = 0
            /\ list_of_checksums' = <<>>
            /\ pos' = 0
            /\ pc' = "read"
            /\ UNCHANGED <<src_file_object, chunk, range_header, retry, archive>>
       ELSE /\ pc' = OnInitiateFailure
            /\ archive' = Nothing
            /\ UNCHANGED <<open, src_file_object, pos, upload_id, byte_pos,
                           list_of_checksums, chunk, range_header, retry>>
    /\ UNCHANGED <<objVars, envVars, run, idx, file_size, mtime, archives,
                   sessHist, runHist>>
    /\ UNCHANGED fnVars

\* src_file_object.read(part_size)
ReadBytes(data, at, n) ==
    SubSeq(data, at + 1, IF at + n <= Len(data) THEN at + n ELSE Len(data))

\* mutant: the end of the range is exclusive
RangeHeader_Exclusive(at, c) == [first |-> at, last |-> at + Len(c)]

\* f"bytes {byte_pos}-{byte_pos + len(chunk) - 1}/*"
RangeHeader(at, c) == [first |-> at, last |-> at + Len(c) - 1]

\* chunk = read(part_size); an empty chunk ends the loop, otherwise the
\* range header is built and byte_pos advanced before the retry loop
ReadChunk ==
    /\ pc = "read"
    /\ LET c == ReadBytes(src_file_object, pos, part_size)
       IN  /\ chunk' = c
           /\ pos' = pos + Len(c)
           /\ IF c = <<>>
              THEN /\ pc' = "complete"
                   /\ UNCHANGED <<range_header, byte_pos, retry>>
              ELSE /\ range_header' = RangeHeader(byte_pos, c)
                   /\ byte_pos' = byte_pos + Len(c)
                   /\ retry' = 0
                   /\ pc' = "upload"
    /\ UNCHANGED <<objVars, envVars, run, idx, file_size, mtime, src_file_object,
                   upload_id, list_of_checksums, archive, svcVars, sessHist, runHist>>
    /\ UNCHANGED fnVars

\* mutant: the bound of the retry loop is off by one
MayRetry_OffByOne(r) == r <= upload_part_retries - 1

\* if retry < upload_part_retries - 1: sleep and try again
MayRetry(r) == r < upload_part_retries - 1

\* mutant: a ClientError is tried again however many attempts were made
OnPartFailure_NoGiveUp(o, r) ==
    IF IsClientError(o) THEN "upload" ELSE "abort"

\* mutant: a part that cannot be uploaded is given up and the loop goes
\* on with the next part
OnPartFailure_Skip(o, r) ==
    IF IsClientError(o) /\ r < upload_part_retries - 1 THEN "upload" ELSE "read"

\* where a failed attempt leads: a ClientError is tried again while
\* retries are left; the last ClientError and any other exception abort
OnPartFailure(o, r) ==
    IF IsClientError(o) /\ MayRetry(r) THEN "upload" ELSE "abort"

\* mutant: the checksum is appended outside the try, for failed attempts too
Recorded_Always(checksums, o, body) == Append(checksums, PartChecksum(body))

\* list_of_checksums after an attempt: response["checksum"] is appended
\* when the call returned
Recorded(checksums, o, body) ==
    IF o = "ok" THEN Append(checksums, PartChecksum(body)) ELSE checksums

\* one pass of the retry loop: glacier.upload_multipart_part and the
\* handling of its result
UploadPart(o) ==
    /\ pc = "upload"
    /\ o \in Outcomes
    /\ list_of_checksums' = Recorded(list_of_checksums, o, chunk)
    /\ IF o = "ok"
       THEN /\ sent' = Append(sent, [range |-> range_header, body |-> chunk])
            /\ maxTries' = IF Len(attempts) + 1 > maxTries
                            THEN Len(attempts) + 1 ELSE maxTries
            /\ attempts' = <<>>
            /\ pc' = "read"
            /\ UNCHANGED retry
       ELSE /\ attempts' = Append(attempts, [range |-> range_header,
                                             body |-> chunk, res |-> o])
            /\ UNCHANGED <<sent, maxTries>>
            /\ pc' = OnPartFailure(o, retry)
            /\ retry' = IF OnPartFailure(o, retry) = "upload" THEN retry + 1 ELSE retry
    /\ UNCHANGED <<objVars, envVars, run, idx, file_size, mtime, src_file_object,
                   pos, upload_id, byte_pos, chunk, range_header, archive,
                   svcVars, aborts, completes, completeArgs, outcome, runHist>>
    /\ UNCHANGED fnVars

\* mutant: the retry loop is left with break instead of return, so the
\* part loop ends and the upload is completed after the abort
AfterAbort_Break == IF attempts # <<>> THEN "complete" ELSE "returned"

\* after _abort_multipart_upload: return None
AfterAbort == "returned"

\* mutant: an exception of the abort call leaves _backup and backup()
OnAbortFailure_Raise == "raised"

\* _abort_multipart_upload's handlers: the error is logged, the caller
\* goes on as after an abort that succeeded
OnAbortFailure == AfterAbort

\* mutant: a rejected completion is tried again
OnCompleteFailure_Retry == "complete"

\* after a failed complete_multipart_upload: the outer handlers abort
OnCompleteFailure == "abort"

\* _abort_multipart_upload(upload_id), then return None: the abort call is
\* made once, its failure is logged and swallowed
AbortUpload(o) ==
    /\ pc = "abort"
    /\ o \in Outcomes
    /\ aborts' = aborts + 1
    /\ open' = IF o = "ok" THEN {s \in open : s.id # upload_id} ELSE open
    /\ pc' = IF o = "ok" THEN AfterAbort ELSE OnAbortFailure
    /\ archive' = Nothing
    /\ UNCHANGED <<objVars, envVars, run, idx, file_size, mtime, src_file_object,
                   pos, upload_id, byte_pos, list_of_checksums, chunk, range_header,
                   retry, archives, attempts, sent, maxTries, completes,
                   completeArgs, outcome, runHist>>
    /\ UNCHANGED fnVars

RECURSIVE Concat(_)
Concat(bodies) ==
    IF bodies = <<>> THEN <<>> ELSE Head(bodies) \o Concat(Tail(bodies))

\* calculate_total_tree_hash and glacier.complete_multipart_upload; any
\* exception lands in the outer handlers, which abort the session
Complete(o) ==
    /\ pc = "complete"
    /\ o \in Outcomes
    /\ LET total_tree_hash == calculate_total_tree_hash(list_of_checksums)
       IN  /\ completes' = completes + 1
           /\ completeArgs' = Some([uploadId |-> upload_id, archiveSize |-> byte_pos,
                                    checksum |-> total_tree_hash])
           /\ IF o = "ok"
              THEN /\ Return(Some([archiveId |-> upload_id, location |-> upload_id,
                                    checksum |-> total_tree_hash, date |-> run]))
                   /\ open' = {s \in open : s.id # upload_id}
                   /\ archives' = archives \cup
                        {[archiveId |-> upload_id, archiveSize |-> byte_pos,
                          checksum |-> total_tree_hash,
                          body |-> Concat([i \in 1..Len(sent) |-> sent[i].body])]}
              ELSE /\ pc' = OnCompleteFailure
                   /\ UNCHANGED <<archive, open, archives>>
    /\ UNCHANGED <<objVars, envVars, run, idx, file_size, mtime, src_file_object,
                   pos, upload_id, byte_pos, list_of_checksums, chunk, range_header,
                   retry, attempts, sent, maxTries, aborts, outcome, runHist>>
    /\ UNCHANGED fnVars

\* compression = "encrypted" if self.encrypt else "plain"; += "+zstd"
CompressionTag(enc, comp) ==
    IF enc THEN (IF comp THEN "encrypted+zstd" ELSE "encrypted")
    ELSE (IF comp THEN "plain+zstd" ELSE "plain")
ModeTag == CompressionTag(encrypt, compress)

\* the row _mark_backed_up inserts: the file is stat'ed again
NewRow(rows, path, a) ==
    LET st == get_stats(path)
    IN  [id |-> Len(rows) + 1, path |-> path,
         file_size |-> st[1], mtime |-> st[2],
         archive_id |-> a.archiveId, location |-> a.location,
         checksum |-> a.checksum, compression |-> ModeTag,
         timestamp |-> a.date]

\* mutant: INSERT OR REPLACE keyed by path, the earlier row of the path is lost
Insert_Replace(rows, row) ==
    Append(SelectSeq(rows, LAMBDA r : r.path # row.path), row)

\* INSERT INTO sync_history (...) VALUES (...); self.conn.commit()
Insert(rows, row) == Append(rows, row)

\* backup() after _backup returned: with an archive, _mark_backed_up
\* inserts one row (an sqlite3.OperationalError on the INSERT is logged
\* only); with None the error is logged; then the next file
MarkBackedUp(dbok) ==
    /\ pc = "returned"
    /\ IF archive # Nothing
       THEN /\ ledger' = IF dbok THEN Insert(ledger, NewRow(ledger, current_file, archive[1]))
                                 ELSE ledger
            /\ FinishFile(IF dbok THEN "committed" ELSE "commit_error")
       ELSE /\ dbok
            /\ UNCHANGED ledger
            /\ FinishFile("failed")
    /\ UNCHANGED <<objVars, fs, run, file_size, mtime, svcVars, runHist>>
    /\ UNCHANGED fnVars

\* ------------------------------------------------------------- environment
\* mutant: a stop request during an upload leaves the loop at once
Stop_Hard ==
    /\ pc \in {"idle", "loop", "initiate"}
    /\ continue_running
    /\ continue_running' = FALSE
    /\ pc' = IF pc = "initiate" THEN "idle" ELSE pc
    /\ UNCHANGED <<part_size, encrypt, compress, current_file, envVars, run, idx,
                   file_size, mtime, upVars, svcVars, sessHist, runHist>>
    /\ UNCHANGED fnVars

\* stop(): the signal handler's cooperative stop request.  The flag is
\* read at the head of the file loop only, so a request during a file's
\* upload is taken when the upload starts: it commutes with every step
\* of the upload.
Stop ==
    /\ pc \in {"idle", "loop", "initiate"}
    /\ continue_running
    /\ continue_running' = FALSE
    /\ UNCHANGED <<part_size, encrypt, compress, current_file, envVars, loopVars,
                   upVars, svcVars, sessHist, runHist>>
    /\ UNCHANGED fnVars

\* A file is replaced by another process.  A replacement commutes with
\* every step that does not read that file, so it is taken only where it
\* changes what a later step reads: for the file the loop is at, before
\* the stat of the dedup check, before the open, and once the upload has
\* the content (before the stat of the commit).
\* The ways a file is replaced: touched (same bytes, later mtime), edited
\* within the clock's resolution (same size and mtime, other bytes),
\* resized (other size, same mtime)
Flip(content) == [i \in 1..Len(content) |-> 1 - content[i]]
Resize(content) ==
    IF Len(content) < MaxLen THEN Append(content, 0) ELSE Tail(content)
ModKinds == {"touch", "edit", "resize"}
Replaced(f, kind) ==
    CASE kind = "touch" -> [content |-> f.content, mtime |-> f.mtime + 1]
      [] kind = "edit" -> [content |-> Flip(f.content), mtime |-> f.mtime]
      [] kind = "resize" -> [content |-> Resize(f.content), mtime |-> f.mtime]
ModifyFile(path, kind) ==
    /\ mods < MaxMods
    /\ pc \in {"loop", "compress", "initiate"}
    /\ idx <= Len(FileList)
    /\ path = FileList[idx]
    /\ Replaced(fs[path], kind) # fs[path]
    /\ fs' = [fs EXCEPT ![path] = Replaced(@, kind)]
    /\ mods' = mods + 1
    /\ modified' = modified \cup {path}
    /\ UNCHANGED <<objVars, ledger, loopVars, upVars, svcVars, sessHist>>
    /\ UNCHANGED fnVars

Next ==
    \/ Construct
    \/ StartRun
    \/ RunEnd
    \/ StopBreak
    \/ \E dbok \in BOOLEAN : CheckIfBackedUp(dbok)
    \/ \E o \in CompressOutcomes : Compress(o)
    \/ \E o \in Outcomes : Initiate(o)
    \/ ReadChunk
    \/ \E o \in Outcomes : UploadPart(o)
    \/ \E o \in Outcomes : AbortUpload(o)
    \/ \E o \in Outcomes : Complete(o)
    \/ \E dbok \in BOOLEAN : MarkBackedUp(dbok)
    \/ Stop

\* the pipeline while no file under args.src changes
Spec == Init /\ [][Next]_vars

\* the steps backup() takes by itself once it runs: every statement of the
\* loop returns, since every call of the service and of the store returns
ProgramStep ==
    \/ RunEnd
    \/ StopBreak
    \/ \E dbok \in BOOLEAN : CheckIfBackedUp(dbok)
    \/ \E o \in CompressOutcomes : Compress(o)
    \/ \E o \in Outcomes : Initiate(o)
    \/ ReadChunk
    \/ \E o \in Outcomes : UploadPart(o)
    \/ \E o \in Outcomes : AbortUpload(o)
    \/ \E o \in Outcomes : Complete(o)
    \/ \E dbok \in BOOLEAN : MarkBackedUp(dbok)

\* the pipeline when no call blocks for ever
SpecLive == Init /\ [][Next]_vars /\ WF_vars(ProgramStep)

\* ------------------------------------------------- functions on their own
\* decide_part_size(file_size) of an object whose part_size is given
DecideCalls ==
    {[fn |-> "decide_part_size", part_size |-> base, file_size |-> size] :
        base \in 1..MaxBase, size \in 0..MaxFileSize}
\* calculate_total_tree_hash(checksums) of either package, on lists of
\* part checksums
PartChecksums == {PartChecksum(<<b>>) : b \in 0..1}
ChecksumLists ==
    UNION {[1..n -> PartChecksums] : n \in 0..MaxChecksums}
FoldCalls ==
    {[fn |-> "calculate_total_tree_hash", package |-> pk, checksums |-> l] :
        pk \in {"src", "glacier_rsync"}, l \in ChecksumLists}
\* BackupUtil(args): the key given, and whether the store can be opened
\* and its table created
InitCalls ==
    {[fn |-> "__init__", encrypt |-> e, encryption_key |-> k,
      connect_ok |-> c, create_ok |-> t] :
        e \in BOOLEAN, k \in {None, "", "invalid", "valid"},
        c \in BOOLEAN, t \in BOOLEAN}
\* _compress(file) of either package on a file of the given content, and
\* the compression column _mark_backed_up writes for it
CompressCalls ==
    {[fn |-> "_compress", package |-> pk, encrypt |-> e, compress |-> c,
      content |-> MkContent(n, 0)] :
        pk \in {"src", "glacier_rsync"}, e \in BOOLEAN, c \in BOOLEAN,
        n \in 0..MaxLen}
\* an element of UploadsList: a dict holding the upload's id under a key
UploadKeys == {"UploadId", "MultipartUploadId"}
UploadElements == [key : UploadKeys, id : 1..2]
UploadLists == UNION {[1..n -> UploadElements] : n \in 0..MaxUploads}
\* the dict list_multipart_uploads returns: with 'UploadsList', or without
Responses == {Some(l) : l \in UploadLists} \cup {Nothing}
\* list_incomplete_uploads(): what the service call does and returns
ListCalls ==
    {[fn |-> "list_incomplete_uploads", outcome |-> o, response |-> r] :
        o \in Outcomes, r \in Responses}
\* abort_multipart_upload(upload_id): what the service call does
AbortCalls ==
    {[fn |-> "abort_multipart_upload", upload_id |-> u, outcome |-> o] :
        u \in 1..2, o \in Outcomes}
\* main() with --abort-incomplete-uploads: the listing, and what the abort
\* call does for the upload at each place of the list
AbortAllCalls ==
    {[fn |-> "abort_incomplete_uploads", outcome |-> o, response |-> r,
      abort_outcomes |-> a] :
        o \in Outcomes, r \in Responses, a \in [1..MaxUploads -> Outcomes]}
\* calculate_tree_hash(part, part_size) of glacier_rsync/backup_util.py
PartHashCalls ==
    {[fn |-> "calculate_tree_hash", part |-> p, part_size |-> n] :
        p \in UNION {[1..k -> {0, 1}] : k \in 0..MaxPart}, n \in 1..(MaxPart + 1)}
\* _backup(src_file_object, description, part_size) of
\* glacier_rsync/backup_util.py on a stream of Len(parts) parts: what the
\* service does at initiate, at each part and at complete
BackupCalls ==
    {[fn |-> "_backup", package |-> "glacier_rsync", initiate |-> i,
      parts |-> ps, complete |-> c] :
        i \in Outcomes, c \in Outcomes,
        ps \in UNION {[1..n -> Outcomes] : n \in 0..MaxParts}}
Calls ==
    DecideCalls \cup FoldCalls \cup InitCalls \cup CompressCalls
        \cup ListCalls \cup AbortCalls \cup AbortAllCalls \cup PartHashCalls
        \cup BackupCalls

\* one call of one function, with the pipeline at rest
InitFn ==
    /\ PipeInit
    /\ part_size = 1 /\ ~encrypt /\ ~compress
    /\ \E c \in Calls : call = Some(c)
    /\ ret = Nothing
    /\ cache = Nothing
    /\ reads = <<>>

CallDecidePartSize ==
    /\ call # Nothing /\ call[1].fn = "decide_part_size"
    /\ ret = Nothing
    /\ ret' = Some(decide_part_size(call[1].part_size, call[1].file_size))
    /\ UNCHANGED <<pipeVars, call, cacheVars>>

\* what a call returned, or the exception it raised
Returned(v) == Some([raised |-> None, value |-> v])
Raised(e) == Some([raised |-> e, value |-> None])

\* src/backup_util.py calculate_total_tree_hash
CallTreeHash ==
    /\ call # Nothing /\ call[1].fn = "calculate_total_tree_hash"
    /\ call[1].package = "src"
    /\ ret = Nothing
    /\ ret' = Returned(calculate_total_tree_hash(call[1].checksums))
    /\ UNCHANGED <<pipeVars, call, cacheVars>>

\* glacier_rsync/backup_util.py calculate_total_tree_hash: tree[0] of an
\* empty list raises IndexError
CallTreeHashLegacy ==
    /\ call # Nothing /\ call[1].fn = "calculate_total_tree_hash"
    /\ call[1].package = "glacier_rsync"
    /\ ret = Nothing
    /\ ret' = IF call[1].checksums = <<>> THEN Raised("IndexError")
              ELSE Returned(FoldChecksums(call[1].checksums))
    /\ UNCHANGED <<pipeVars, call, cacheVars>>

\* mutant: the key is looked at after the client and the store are set up
InitSteps_KeyLast == <<"boto3.client", "sqlite3.connect", "create table", "Fernet">>

\* __init__ after the fields are set: the key, the service client, the
\* store, its table
InitSteps == <<"Fernet", "boto3.client", "sqlite3.connect", "create table">>
\* the exception a step of __init__ ends with, None when it passes
StepRaises(step, c) ==
    CASE step = "Fernet" ->
             IF c.encrypt /\ c.encryption_key \in {None, "", "invalid"}
             THEN "ValueError" ELSE None
      [] step = "boto3.client" -> None
      [] step = "sqlite3.connect" -> IF c.connect_ok THEN None ELSE "ValueError"
      [] step = "create table" -> IF c.create_ok THEN None ELSE "SystemExit(2)"
RECURSIVE RunSteps(_, _, _)
RunSteps(steps, c, done) ==
    IF steps = <<>> THEN [raised |-> None, done |-> done]
    ELSE LET e == StepRaises(Head(steps), c)
         IN  IF e # None THEN [raised |-> e, done |-> done]
             ELSE RunSteps(Tail(steps), c, Append(done, Head(steps)))

CallInit ==
    /\ call # Nothing /\ call[1].fn = "__init__"
    /\ ret = Nothing
    /\ ret' = Some(RunSteps(InitSteps, call[1], <<>>))
    /\ UNCHANGED <<pipeVars, call, cacheVars>>

\* src/backup_util.py _compress, then the tag of _mark_backed_up
CallCompress ==
    /\ call # Nothing /\ call[1].fn = "_compress"
    /\ call[1].package = "src"
    /\ ret = Nothing
    /\ ret' = Returned(
          [uploaded    |-> ApplyTransforms(call[1].encrypt, call[1].compress,
                                           call[1].content),
           compression |-> CompressionTag(call[1].encrypt, call[1].compress)])
    /\ UNCHANGED <<pipeVars, call, cacheVars>>

\* glacier_rsync/backup_util.py _compress, then the tag of _mark_backed_up
CallCompressLegacy ==
    /\ call # Nothing /\ call[1].fn = "_compress"
    /\ call[1].package = "glacier_rsync"
    /\ ret = Nothing
    /\ ret' = Returned(
          [uploaded    |-> ApplyTransformsLegacy(call[1].encrypt, call[1].compress,
                                                 call[1].content),
           compression |-> CompressionTag(call[1].encrypt, call[1].compress)])
    /\ UNCHANGED <<pipeVars, call, cacheVars>>

\* a call of the service as its stub sees it; uploadId 0 when none is given
ServiceCall(op, id) == [op |-> op, uploadId |-> id]

\* mutant: a failed listing is passed on to the caller
OnListFailure_Raise(o) == [raised |-> o, value |-> <<>>]

\* except ClientError / except Exception: logged, return []
OnListFailure(o) == [raised |-> None, value |-> <<>>]

\* list_incomplete_uploads(): one list_multipart_uploads call, then
\* response.get('UploadsList', []) logged and returned
list_incomplete_uploads(o, response) ==
    LET r == IF o = "ok"
             THEN [raised |-> None,
                   value  |-> IF response = Nothing THEN <<>> ELSE response[1]]
             ELSE OnListFailure(o)
    IN  [raised |-> r.raised, value |-> r.value,
         calls |-> <<ServiceCall("list_multipart_uploads", 0)>>]

\* mutant: True is returned whatever the abort call did
AbortResult_Always(o) == TRUE

\* return True after the call, return False in both handlers
AbortResult(o) == o = "ok"

\* abort_multipart_upload(upload_id): one abort call
abort_multipart_upload(id, o) ==
    [raised |-> None, value |-> AbortResult(o),
     calls |-> <<ServiceCall("abort_multipart_upload", id)>>]

RECURSIVE AbortEach(_, _, _, _)
\* for upload in uploads: backup_util.abort_multipart_upload(upload["UploadId"])
\* from the k-th upload on; upload["UploadId"] of a dict without that key
\* raises KeyError out of main()
AbortEach(uploads, outs, k, calls) ==
    IF k > Len(uploads) THEN [raised |-> None, calls |-> calls]
    ELSE IF uploads[k].key # "UploadId" THEN [raised |-> "KeyError", calls |-> calls]
    ELSE AbortEach(uploads, outs, k + 1,
                   calls \o abort_multipart_upload(uploads[k].id, outs[k]).calls)

\* main(): uploads = list_incomplete_uploads(); abort each; close(); exit
abort_incomplete_uploads(c) ==
    LET l == list_incomplete_uploads(c.outcome, c.response)
    IN  AbortEach(l.value, c.abort_outcomes, 1, l.calls)

CallListIncompleteUploads ==
    /\ call # Nothing /\ call[1].fn = "list_incomplete_uploads"
    /\ ret = Nothing
    /\ ret' = Some(list_incomplete_uploads(call[1].outcome, call[1].response))
    /\ UNCHANGED <<pipeVars, call, cacheVars>>

CallAbortMultipartUpload ==
    /\ call # Nothing /\ call[1].fn = "abort_multipart_upload"
    /\ ret = Nothing
    /\ ret' = Some(abort_multipart_upload(call[1].upload_id, call[1].outcome))
    /\ UNCHANGED <<pipeVars, call, cacheVars>>

CallAbortIncompleteUploads ==
    /\ call # Nothing /\ call[1].fn = "abort_incomplete_uploads"
    /\ ret = Nothing
    /\ ret' = Some(abort_incomplete_uploads(call[1]))
    /\ UNCHANGED <<pipeVars, call, cacheVars>>

\* part[chunk_pos: chunk_pos + step]
PySlice(seq, from, to) ==
    SubSeq(seq, from + 1, IF to <= Len(seq) THEN to ELSE Len(seq))
\* range(0, upper_bound, step)
RangeFrom0(upper_bound, step) ==
    [k \in 1..((upper_bound + step - 1) \div step) |-> (k - 1) * step]
\* the bytes of a chunk given to sha256, marked as data bytes (a digest is
\* kept as a one-element string, see Sha256)
DataBytes(data) == [i \in 1..Len(data) |-> [byte |-> data[i]]]
\* the checksums calculate_tree_hash collects: one sha256 hexdigest per
\* chunk_pos below upper_bound = min(len(part), part_size)
SubBlockChecksums(part, size) ==
    LET upper_bound == IF Len(part) < size THEN Len(part) ELSE size
        starts == RangeFrom0(upper_bound, SubBlock)
    IN  [k \in 1..Len(starts) |->
            Hexlify(Sha256(DataBytes(PySlice(part, starts[k], starts[k] + SubBlock))))]

\* glacier_rsync/backup_util.py calculate_tree_hash
CallTreeHashOfPart ==
    /\ call # Nothing /\ call[1].fn = "calculate_tree_hash"
    /\ ret = Nothing
    /\ ret' = LET checksums == SubBlockChecksums(call[1].part, call[1].part_size)
              IN  IF checksums = <<>> THEN Raised("IndexError")
                  ELSE Returned(FoldChecksums(checksums))
    /\ UNCHANGED <<pipeVars, call, cacheVars>>

RECURSIVE LegacyParts(_, _, _)
\* the part loop of glacier_rsync _backup from part k on: one
\* upload_multipart_part per part, the first exception leaves the loop
LegacyParts(outs, k, calls) ==
    IF k > Len(outs) THEN [res |-> "ok", calls |-> calls]
    ELSE LET made == Append(calls, ServiceCall("upload_multipart_part", 1))
         IN  IF outs[k] # "ok" THEN [res |-> outs[k], calls |-> made]
             ELSE LegacyParts(outs, k + 1, made)
\* how glacier_rsync _backup is left on an exception of a service call:
\* except ClientError returns None, anything else is not caught
LegacyFailure(o, calls) ==
    [raised |-> IF IsClientError(o) THEN None ELSE "Exception",
     value |-> Nothing, calls |-> calls]
\* glacier_rsync/backup_util.py _backup: initiate, the parts, complete; the
\* service gives upload id 1
LegacyBackup(c) ==
    LET begun == <<ServiceCall("initiate_multipart_upload", 0)>>
        loop == LegacyParts(c.parts, 1, begun)
        ended == Append(loop.calls, ServiceCall("complete_multipart_upload", 1))
    IN  IF c.initiate # "ok" THEN LegacyFailure(c.initiate, begun)
        ELSE IF loop.res # "ok" THEN LegacyFailure(loop.res, loop.calls)
        ELSE IF c.complete # "ok" THEN LegacyFailure(c.complete, ended)
        ELSE [raised |-> None, value |-> Some([archiveId |-> 1]), calls |-> ended]

CallBackupLegacy ==
    /\ call # Nothing /\ call[1].fn = "_backup"
    /\ call[1].package = "glacier_rsync"
    /\ ret = Nothing
    /\ ret' = Some(LegacyBackup(call[1]))
    /\ UNCHANGED <<pipeVars, call, cacheVars>>

NextFn ==
    \/ CallBackupLegacy
    \/ CallTreeHashOfPart
    \/ CallListIncompleteUploads
    \/ CallAbortMultipartUpload
    \/ CallAbortIncompleteUploads
    \/ CallCompress
    \/ CallCompressLegacy
    \/ CallDecidePartSize
    \/ CallTreeHash
    \/ CallTreeHashLegacy
    \/ CallInit

SpecFn == InitFn /\ [][NextFn]_vars

\* --------------------------------------------------------------- FileCache
\* the byte strings a FileCache is made over
Sources == UNION {[1..n -> {0, 1}] : n \in 0..MaxLen}
\* io.BytesIO(data), or a file opened with open(path, 'rb')
CacheKinds == {"BytesIO", "file"}

RECURSIVE Chunks(_, _)
\* the chunks cctx.read_to_iter(f, write_size) yields: the compressed frame
\* in pieces of at most write_size bytes, none of them empty
Chunks(stream, size) ==
    IF stream = <<>> THEN <<>>
    ELSE IF Len(stream) <= size THEN <<stream>>
    ELSE <<SubSeq(stream, 1, size)>> \o Chunks(SubSeq(stream, size + 1, Len(stream)), size)

\* FileCache(f, compression): reader is the iterator of compressed chunks,
\* or f itself, whose position is tell
FileCache(kind, data, compression) ==
    [compression |-> compression,
     kind        |-> kind,
     f           |-> data,
     tell        |-> 0,
     reader      |-> IF compression THEN Chunks(ZstdCompress(data), WriteSize) ELSE <<>>,
     next_chunk  |-> Some(<<>>)]

\* mutant: a read is refused when fewer than n bytes are left
ReturnsNoneAtOnce_Short(c, n) ==
    IF c.compression THEN c.next_chunk = Nothing
    ELSE IF c.kind = "BytesIO" THEN c.tell + n > Len(c.f)
    ELSE FALSE

\* the tests read() makes before it reads, none of which looks at n:
\* next_chunk is None (compression), tell() >= len(getvalue()) (BytesIO),
\* not readable() (any other object: a file opened for reading is readable)
ReturnsNoneAtOnce(c, n) ==
    IF c.compression THEN c.next_chunk = Nothing
    ELSE IF c.kind = "BytesIO" THEN c.tell >= Len(c.f)
    ELSE FALSE

RECURSIVE GrowChunk(_, _, _)
\* while len(self.next_chunk) < n: self.grow_chunk(); stop is StopIteration
\* raised by next(self.reader)
GrowChunk(buf, reader, n) ==
    IF Len(buf) >= n THEN [stop |-> FALSE, buf |-> buf, reader |-> reader]
    ELSE IF reader = <<>> THEN [stop |-> TRUE, buf |-> buf, reader |-> reader]
    ELSE GrowChunk(buf \o Head(reader), Tail(reader), n)

\* mutant: the byte after the returned ones is dropped from the buffer
Slice_DropOne(buf, n) ==
    [rv |-> SubSeq(buf, 1, n), rest |-> SubSeq(buf, n + 2, Len(buf))]

\* rv = self.next_chunk[:n]; self.next_chunk = self.next_chunk[n:]
Slice(buf, n) ==
    [rv |-> SubSeq(buf, 1, n), rest |-> SubSeq(buf, n + 1, Len(buf))]

\* FileCache.read(n): what it returns (Nothing for None) and the object after
read(c, n) ==
    IF ReturnsNoneAtOnce(c, n) THEN [rv |-> Nothing, cache |-> c]
    ELSE IF ~c.compression
    THEN LET rv == ReadBytes(c.f, c.tell, n)
         IN  [rv |-> Some(rv), cache |-> [c EXCEPT !.tell = @ + Len(rv)]]
    ELSE LET g == GrowChunk(c.next_chunk[1], c.reader, n)
         IN  IF g.stop
             THEN [rv    |-> Some(g.buf),
                   cache |-> [c EXCEPT !.next_chunk = Nothing, !.reader = g.reader]]
             ELSE [rv    |-> Some(Slice(g.buf, n).rv),
                   cache |-> [c EXCEPT !.next_chunk = Some(Slice(g.buf, n).rest),
                                       !.reader = g.reader]]

InitCache ==
    /\ PipeInit
    /\ part_size = 1 /\ ~encrypt /\ ~compress
    /\ call = Nothing
    /\ ret = Nothing
    /\ \E kind \in CacheKinds, data \in Sources, compression \in BOOLEAN :
          cache = Some(FileCache(kind, data, compression))
    /\ reads = <<>>

CacheRead(n) ==
    /\ cache # Nothing
    /\ Len(reads) < MaxReads
    /\ cache' = Some(read(cache[1], n).cache)
    /\ reads' = Append(reads, [n |-> n, rv |-> read(cache[1], n).rv])
    /\ UNCHANGED <<pipeVars, call, ret>>

NextCache == \E n \in 1..MaxReadSize : CacheRead(n)

SpecCache == InitCache /\ [][NextCache]_vars

\* the pipeline with files replaced while it runs and between runs
NextFs ==
    \/ Next
    \/ \E path \in Paths, kind \in ModKinds : ModifyFile(path, kind)

SpecFs == Init /\ [][NextFs]_vars

\* sys.exit(0) raised where backup() is: the locals of the process are gone
ProcessEnds ==
    /\ pc' = "exited"
    /\ outcome' = "force_stop"
    /\ attempts' = <<>>
    /\ sent' = <<>>
    /\ maxTries' = 0
    /\ aborts' = 0
    /\ completes' = 0
    /\ completeArgs' = Nothing
    /\ src_file_object' = <<>>
    /\ pos' = 0
    /\ upload_id' = 0
    /\ byte_pos' = 0
    /\ list_of_checksums' = <<>>
    /\ chunk' = <<>>
    /\ range_header' = NoRange
    /\ retry' = 0
    /\ archive' = Nothing

\* signal_handler on the FORCE_STOP_LIMIT-th signal, the earlier ones having
\* called stop(): close() and sys.exit(0), raised in the main thread
\* wherever backup() is.  SystemExit passes the handlers of _backup (except
\* ClientError, except Exception), so nothing is aborted or committed; the
\* process is gone with its locals, the store and the service stay as they are
ForceStop ==
    /\ pc \in {"loop", "compress", "initiate", "read", "upload", "complete",
              "abort", "returned"}
    /\ ~continue_running
    /\ ProcessEnds
    /\ UNCHANGED <<objVars, envVars, run, idx, file_size, mtime, svcVars, runHist>>
    /\ UNCHANGED fnVars

\* the pipeline with force stops
NextInterrupt ==
    \/ Next
    \/ ForceStop

SpecInterrupt == Init /\ [][NextInterrupt]_vars

FORCE_STOP_LIMIT == 3

\* mutant: the signal before the limit already ends the process
IsForceStop_OffByOne(count) == ~(count < FORCE_STOP_LIMIT - 1)

\* if stop_request_count < FORCE_STOP_LIMIT: stop(); else: force stop
IsForceStop(count) == ~(count < FORCE_STOP_LIMIT)

\* signal_handler(sig, frame), run in the main thread between two steps of
\* backup(): the signal is counted; below the limit stop() clears the
\* flag; from the limit on close() commits and closes the connection and
\* sys.exit(0) ends the process
Signal ==
    /\ pc \notin {"exited", "raised"}
    /\ stop_request_count' = stop_request_count + 1
    /\ IF IsForceStop(stop_request_count + 1)
       THEN /\ conn' = "closed"
            /\ ProcessEnds
            /\ UNCHANGED <<objVars, envVars, run, idx, file_size, mtime, svcVars,
                           runHist>>
       ELSE /\ continue_running' = FALSE
            /\ UNCHANGED <<part_size, encrypt, compress, current_file, envVars,
                           loopVars, upVars, svcVars, sessHist, runHist, conn>>
    /\ UNCHANGED <<call, ret, cacheVars>>

\* main() in a new process: stop_request_count = 0, BackupUtil(args)
\* connects to the store, the handler is installed
Main ==
    /\ pc \in {"idle", "exited", "raised"}
    /\ run >= 1
    /\ pc' = "idle"
    /\ continue_running' = TRUE
    /\ current_file' = None
    /\ stop_request_count' = 0
    /\ conn' = "open"
    /\ UNCHANGED <<part_size, encrypt, compress, envVars, run, idx, file_size,
                   mtime, upVars, svcVars, sessHist, runHist>>
    /\ UNCHANGED <<call, ret, cacheVars>>

\* the pipeline under main(), with its signal handler
NextSignal ==
    \/ Main
    \/ StartRun
    \/ ProgramStep
    \/ Signal

SpecSignal == Init /\ [][NextSignal]_vars

\* ------------------------------------------------------------------ claims
InSession == pc \in {"read", "upload", "complete", "abort", "returned"} /\ upload_id # 0

\* every attempt for the part in hand failed with a ClientError
Exhausted ==
    /\ Len(attempts) = upload_part_retries
    /\ \A i \in 1..Len(attempts) : IsClientError(attempts[i].res)

\* C1: when all three attempts for a part fail with a service error, the
\* session goes to the abort call and back to backup() only: one abort
\* call is made, complete is never called, no part after the failed one
\* is sent, and the file's loop iteration ends without a ledger row.
C1_State ==
    Exhausted =>
        /\ pc \in {"abort", "returned"}
        /\ aborts = (IF pc = "returned" THEN 1 ELSE 0)
        /\ completes = 0
        /\ archive = Nothing
        /\ \A k \in 1..Len(sent) : sent[k].range.last < attempts[1].range.first
C1_Step ==
    (Exhausted /\ pc = "returned") =>
        /\ ledger' = ledger
        /\ pc' = "loop" => outcome' = "failed"
C1_RetryExhaustion == []C1_State /\ [][C1_Step]_vars
C1_Witness == Exhausted /\ pc = "returned" /\ Len(sent) >= 1

\* C2: a part is sent at most three times; every attempt for it carries
\* the range and the body of the part in hand, no other part is sent in
\* between, and no fourth attempt is made.
C2_AtMostThreeAttempts ==
    /\ Len(attempts) <= upload_part_retries
    /\ maxTries <= upload_part_retries
    /\ pc = "upload" => Len(attempts) < upload_part_retries /\ retry = Len(attempts)
    /\ \A i \in 1..Len(attempts) :
          /\ attempts[i].range = attempts[1].range
          /\ attempts[i].body = attempts[1].body
          /\ pc = "upload" => attempts[i].range = range_header /\ attempts[i].body = chunk
    /\ \A i \in 1..Len(attempts), k \in 1..Len(sent) :
          sent[k].range # attempts[i].range
C2_Witness == pc = "upload" /\ Len(attempts) = upload_part_retries - 1 /\ Len(sent) >= 1

\* C3: when a part fails twice and succeeds on its third attempt (and no
\* part fails for good), the session records one checksum per part,
\* calls complete, and makes no abort call unless complete itself fails;
\* with the archive returned, the loop iteration commits one row for it
\* (unless the INSERT itself fails).
RetriedThenSucceeded ==
    /\ InSession
    /\ maxTries = upload_part_retries
    /\ attempts = <<>>
C3_State ==
    RetriedThenSucceeded =>
        /\ Len(list_of_checksums) = Len(sent)
        /\ \A k \in 1..Len(sent) : list_of_checksums[k] = PartChecksum(sent[k].body)
        /\ pc \in {"read", "upload", "complete"} => aborts = 0 /\ completes = 0
        /\ pc = "abort" => completes = 1 /\ aborts = 0
        /\ pc = "returned" => completes = 1 /\ (aborts = 0 <=> archive # Nothing)
C3_Step ==
    (RetriedThenSucceeded /\ pc = "returned" /\ archive # Nothing /\ pc' = "loop") =>
        \/ /\ outcome' = "committed"
           /\ Len(ledger') = Len(ledger) + 1
           /\ ledger'[Len(ledger')].archive_id = archive[1].archiveId
           /\ ledger'[Len(ledger')].path = current_file
        \/ /\ outcome' = "commit_error"
           /\ ledger' = ledger
C3_RetryThenSuccess == []C3_State /\ [][C3_Step]_vars
C3_Witness ==
    /\ RetriedThenSucceeded
    /\ pc = "returned"
    /\ archive # Nothing
    /\ aborts = 0
    /\ Len(sent) >= 2

\* C4: a terminal service error on a part ends the attempts for that
\* part: it is the last attempt, and the session is aborting or aborted.
C4_TerminalNotRetried ==
    \A i \in 1..Len(attempts) :
        attempts[i].res = "terminal" =>
            i = Len(attempts) /\ pc \in {"abort", "returned"}

\* C5: the calls of a session come in protocol order: parts and the
\* completion only for a session id that initiate returned, no part once
\* complete or abort was called, at most one complete and one abort,
\* abort only from the part loop or after a failed complete, and no
\* complete once abort was called.
C5_State ==
    /\ (sent # <<>> \/ attempts # <<>> \/ completes > 0 \/ aborts > 0) => upload_id # 0
    /\ pc \in {"read", "upload", "complete", "abort"} =>
          upload_id # 0 /\ aborts = 0 /\ \E s \in open : s.id = upload_id
    /\ pc \in {"read", "upload"} => completes = 0
    /\ pc = "complete" => completes = 0 /\ attempts = <<>>
    /\ pc = "abort" => (attempts # <<>> /\ completes = 0) \/ (attempts = <<>> /\ completes = 1)
    /\ completes <= 1
    /\ aborts <= 1
    /\ aborts = 1 => pc = "returned" /\ archive = Nothing
C5_Step ==
    (completes > 0 \/ aborts > 0) =>
        /\ Len(sent') <= Len(sent)
        /\ Len(attempts') <= Len(attempts)
        /\ aborts > 0 => completes' <= completes
C5_SessionOrder == []C5_State /\ [][C5_Step]_vars
C5_Witness == pc = "returned" /\ completes = 1 /\ aborts = 1 /\ Len(sent) >= 1

\* C6: the parts of a session tile the stream in order: the first part
\* starts at byte 0, each part's inclusive range is [offset, offset +
\* len - 1] over the bytes of the stream at that place, the next part
\* starts right after it, and every part but the last has part_size bytes.
PartStart(k) == IF k = 1 THEN 0 ELSE sent[k - 1].range.last + 1
C6_ContiguousParts ==
    /\ \A k \in 1..Len(sent) :
          /\ sent[k].range.first = PartStart(k)
          /\ sent[k].range.last = sent[k].range.first + Len(sent[k].body) - 1
          /\ Len(sent[k].body) >= 1
          /\ Len(sent[k].body) <= part_size
          /\ k < Len(sent) => Len(sent[k].body) = part_size
          /\ InSession => sent[k].body = SubSeq(src_file_object, sent[k].range.first + 1,
                                                sent[k].range.last + 1)
    /\ \A i \in 1..Len(attempts) :
          /\ attempts[i].range.first = PartStart(Len(sent) + 1)
          /\ attempts[i].range.last = attempts[i].range.first + Len(attempts[i].body) - 1
          /\ \A k \in 1..Len(sent) : Len(sent[k].body) = part_size
    /\ pc = "upload" =>
          /\ range_header.first = PartStart(Len(sent) + 1)
          /\ range_header.last = range_header.first + Len(chunk) - 1
          /\ byte_pos = range_header.last + 1
          /\ \A k \in 1..Len(sent) : Len(sent[k].body) = part_size
C6_Witness ==
    /\ Len(sent) >= 2
    /\ Len(sent[Len(sent)].body) < part_size
    /\ pc = "complete"

\* C8: a rejected complete is not tried again: complete is called at most
\* once in a session, the session is aborted, the loop iteration ends
\* without a ledger row, and the loop goes on to the next file.
CompleteRejected == InSession /\ completes >= 1 /\ archive = Nothing
C8_State ==
    /\ completes <= 1
    /\ CompleteRejected =>
          /\ pc \in {"abort", "returned"}
          /\ aborts = (IF pc = "returned" THEN 1 ELSE 0)
C8_Step ==
    (CompleteRejected /\ pc = "returned") =>
        /\ ledger' = ledger
        /\ pc' = "loop"
        /\ idx' = idx + 1
        /\ outcome' = "failed"
C8_CompleteRejected == []C8_State /\ [][C8_Step]_vars
C8_Witness == CompleteRejected /\ pc = "returned" /\ idx < Len(FileList)

\* C7: when complete_multipart_upload is called, list_of_checksums holds one
\* entry per uploaded part, in offset order, and none for a failed attempt;
\* the checksum sent is the fold of that list in which an unpaired last
\* checksum is carried unchanged; and the archiveSize sent is the sum of
\* the lengths of the uploaded parts.
C7_CompleteArguments ==
    completeArgs # Nothing =>
        /\ Len(list_of_checksums) = Len(sent)
        /\ \A k \in 1..Len(sent) : list_of_checksums[k] = PartChecksum(sent[k].body)
        /\ completeArgs[1].archiveSize =
               Len(Concat([k \in 1..Len(sent) |-> sent[k].body]))
        /\ Len(list_of_checksums) >= 1 =>
               completeArgs[1].checksum = FoldChecksums(list_of_checksums)

\* C9: while a file is not replaced, the ledger holds at most one record
\* for it; every record is added alone, by the commit of the file just
\* uploaded; and once the file has a record, a later run skips it: the
\* dedup check ends the iteration with no session opened, no part sent,
\* no complete call and no record added.
RowsOf(rows, f) == {i \in 1..Len(rows) : rows[i].path = f}
Processing == pc \in {"compress", "initiate", "read", "upload", "complete",
                      "abort", "returned"}
C9_State ==
    \A f \in Paths \ modified :
        /\ Cardinality(RowsOf(ledger, f)) <= 1
        /\ (Processing /\ current_file = f) => RowsOf(ledger, f) = {}
C9_Step ==
    /\ ledger' # ledger =>
          /\ Len(ledger') = Len(ledger) + 1
          /\ SubSeq(ledger', 1, Len(ledger)) = ledger
          /\ ledger'[Len(ledger')].path = current_file
          /\ pc = "returned" /\ outcome' = "committed"
    /\ outcome' = "committed" /\ pc = "returned" => Len(ledger') = Len(ledger) + 1
    /\ \A f \in Paths \ modified :
          (/\ pc = "loop" /\ idx <= Len(FileList) /\ FileList[idx] = f
           /\ RowsOf(ledger, f) # {}
           /\ idx' = idx + 1)
          => /\ outcome' = "skipped"
             /\ pc' = "loop"
             /\ UNCHANGED <<ledger, open, archives>>
C9_UnchangedFilesOnce == []C9_State /\ [][C9_Step]_vars
C9_Witness ==
    /\ run = 2 /\ pc = "loop" /\ idx > Len(FileList)
    /\ outcome = "skipped"
    /\ modified = {}
    /\ \A f \in Paths : Cardinality(RowsOf(ledger, f)) = 1
    /\ Cardinality(archives) = Len(FileList)

\* C10: the dedup check takes the file's identity (path, size, mtime) from
\* the file system and skips the file exactly when some record has the
\* same path, size and mtime: a file being uploaded has no such record,
\* though it may have records of other sizes or mtimes, and a skipped file
\* has one, whatever its content is now.
HasRecord(rows, path, size, mt) ==
    \E i \in 1..Len(rows) :
        rows[i].path = path /\ rows[i].file_size = size /\ rows[i].mtime = mt
C10_State ==
    /\ Processing => ~HasRecord(ledger, current_file, file_size, mtime)
    /\ (pc = "loop" /\ outcome = "skipped") =>
          HasRecord(ledger, current_file, file_size, mtime)
C10_Step ==
    (pc = "loop" /\ (pc' = "compress" \/ idx' = idx + 1)) =>
        LET file == FileList[idx]
            st == get_stats(file)
        IN  /\ <<current_file', file_size', mtime'>> = <<file, st[1], st[2]>>
            /\ (pc' = "compress") <=> ~HasRecord(ledger, file, st[1], st[2])
            /\ (pc' = "loop" /\ outcome' = "skipped") <=>
                  HasRecord(ledger, file, st[1], st[2])
C10_IsArchived == []C10_State /\ [][C10_Step]_vars
C10_Witness ==
    /\ pc = "loop" /\ outcome = "skipped"
    /\ current_file \in modified
    /\ fs[current_file].content # InitialFiles[current_file]
    /\ Cardinality(RowsOf(ledger, current_file)) = 1

\* C11: a record is inserted exactly once for each file whose complete call
\* succeeded, carrying the archive id, location and checksum that call
\* returned, and never for a file whose session failed or was aborted:
\* every change of the ledger appends one row built from the archive
\* _backup returned, a file that returns an archive gets its row, and a
\* file that returns None gets none.
C11_Step ==
    /\ ledger' # ledger =>
          /\ pc = "returned" /\ archive # Nothing
          /\ completes = 1 /\ aborts = 0
          /\ Len(ledger') = Len(ledger) + 1
          /\ LET row == ledger'[Len(ledger')]
             IN  /\ row.path = current_file
                 /\ row.archive_id = archive[1].archiveId
                 /\ row.location = archive[1].location
                 /\ row.checksum = archive[1].checksum
                 /\ \E a \in archives : a.archiveId = row.archive_id
                                        /\ a.checksum = row.checksum
    /\ (pc = "returned" /\ archive # Nothing /\ pc' # pc) =>
          Len(ledger') = Len(ledger) + 1
    /\ (pc = "returned" /\ archive = Nothing) => ledger' = ledger
C11_RecordPerCompletedFile == [][C11_Step]_vars

\* C12: the ledger is append-only: every step keeps the rows it found, with
\* their fields, as a prefix of the ledger it leaves, and the row ids are
\* strictly increasing in commit order.
C12_State ==
    \A i, j \in 1..Len(ledger) : i < j => ledger[i].id < ledger[j].id
C12_Step ==
    /\ Len(ledger') >= Len(ledger)
    /\ SubSeq(ledger', 1, Len(ledger)) = ledger
C12_AppendOnly == []C12_State /\ [][C12_Step]_vars
C12_Witness ==
    /\ Cardinality(RowsOf(ledger, "a")) = 2
    /\ Cardinality(RowsOf(ledger, "b")) = 1

\* C13: a file that could not be uploaded does not end the run: backup()
\* goes to the next file of the list with the stop flag as it was, that
\* file is the next one checked against the ledger, and unless a stop is
\* requested its iteration is reached and carried to its end.
FailedAt(k) == pc = "loop" /\ outcome = "failed" /\ idx = k + 1
C13_Step ==
    /\ (pc = "returned" /\ archive = Nothing /\ pc' # pc) =>
          /\ pc' = "loop" /\ idx' = idx + 1 /\ outcome' = "failed"
          /\ continue_running' = continue_running
    /\ (\E k \in 1..(Len(FileList) - 1) : FailedAt(k) /\ continue_running /\ pc' # pc) =>
          /\ current_file' = FileList[idx]
          /\ pc' \in {"compress", "loop", "exited"}
          /\ pc' # "exited" =>
                (pc' = "compress" <=> ~HasRecord(ledger, FileList[idx], file_size', mtime'))
C13_Live ==
    \A k \in 1..(Len(FileList) - 1) :
        FailedAt(k) ~> (~continue_running \/ idx > k + 1 \/ pc \in {"exited", "raised"})
C13_FailureIsPerFile == [][C13_Step]_vars /\ C13_Live
C13_Witness ==
    /\ run = 1 /\ pc = "loop" /\ idx > Len(FileList)
    /\ outcome = "committed"
    /\ RowsOf(ledger, "a") = {} /\ RowsOf(ledger, "b") # {}
    /\ Cardinality(archives) = 1

\* C14: no error of one file escapes backup(): whatever fails in opening,
\* encrypting, compressing or uploading a file, backup() is never left by
\* an exception, and the failed file's iteration ends in the loop with the
\* file reported as failed.
C14_State == pc # "raised"
C14_Step ==
    (Processing /\ ~Processing') =>
        pc' = "loop" /\ idx' = idx + 1
C14_NoErrorEscapesRun == []C14_State /\ [][C14_Step]_vars

\* C15: a stop requested while a file's upload is in flight does not cut
\* the upload short: the file's iteration goes on to its end (commit or
\* failure), after which the loop is left and no later file is checked,
\* uploaded or committed.
C15_Step ==
    /\ (Processing /\ ~continue_running') =>
          \/ Processing' /\ current_file' = current_file /\ idx' = idx
          \/ pc' = "loop" /\ idx' = idx + 1
          \/ pc' = "raised"
    /\ (pc = "loop" /\ ~continue_running) =>
          /\ pc' \in {"loop", "idle"}
          /\ UNCHANGED <<idx, ledger, open, archives, file_size, mtime>>
C15_Live ==
    \A k \in 1..Len(FileList) :
        (Processing /\ ~continue_running /\ idx = k)
            ~> ((pc = "idle" /\ idx = k + 1) \/ pc = "raised")
C15_StopDuringUpload == [][C15_Step]_vars /\ C15_Live
C15_Witness ==
    /\ ~continue_running /\ run = 1
    /\ pc = "returned" /\ archive # Nothing
    /\ idx < Len(FileList)

\* C16: the stop flag is sticky: of one BackupUtil object it is never
\* cleared once set, and backup() entered or at the head of the loop with
\* the flag set makes no ledger lookup, opens no session, sends nothing and
\* commits nothing for the files that remain.
C16_Step ==
    /\ ~continue_running => (~continue_running' \/ Construct)
    /\ (~continue_running /\ pc \in {"idle", "loop"} /\ ~Construct) =>
          /\ pc' \in {"idle", "loop"}
          /\ pc = "loop" => idx' = idx
          /\ UNCHANGED <<ledger, open, archives, file_size, mtime, upVars,
                         attempts, sent, aborts, completes>>
C16_StickyStop == [][C16_Step]_vars
C16_Witness ==
    /\ ~continue_running /\ run = MaxRuns
    /\ pc = "idle" /\ idx = 1
    /\ ledger = <<>> /\ archives = {} /\ open = {}

\* C17: a session sends at most the service's limit of parts, whatever the
\* file's size and transform mode, and the part size given to
\* initiate_multipart_upload is the one used to cut every part.
C17_PartCountAndSize ==
    InSession =>
        /\ Len(sent) <= PartLimit
        /\ \A k \in 1..Len(sent) : Len(sent[k].body) <= part_size
        /\ \A s \in open : s.id = upload_id => s.partSize = part_size

\* C18: for file_size >= 0 and a configured part size > 0 decide_part_size
\* returns a part size p with ceil(file_size / p) within the limit, p the
\* configured size times a power of two, and the smallest such (the
\* configured size itself when the file fits in the limit at that size).
CeilDiv(a, b) == (a + b - 1) \div b
IsDecideCall == call # Nothing /\ call[1].fn = "decide_part_size"
C18_ChoosePartSize ==
    (IsDecideCall /\ ret # Nothing) =>
        LET size == call[1].file_size
            base == call[1].part_size
            p == ret[1]
        IN  /\ CeilDiv(size, p) <= PartLimit
            /\ \E k \in 0..MaxDoublings :
                  /\ p = base * Pow2(k)
                  /\ \A j \in 0..(k - 1) : CeilDiv(size, base * Pow2(j)) > PartLimit
            /\ size <= PartLimit * base => p = base

\* C19: the fold behind calculate_total_tree_hash pairs adjacent checksums
\* left to right, a pair (a, b) becoming SHA256(raw(a) ++ raw(b)), and
\* carries an unpaired last checksum to the next level as it is: the fold
\* of [a] is a, and the fold of a longer list is the fold of its next
\* level so built; this holds in both packages.
IsFoldCall == call # Nothing /\ call[1].fn = "calculate_total_tree_hash"
TreeHashOf(package, checksums) ==
    IF package = "src" THEN calculate_total_tree_hash(checksums)
    ELSE FoldChecksums(checksums)
C19_FoldCarriesOddUnchanged ==
    (IsFoldCall /\ ret # Nothing /\ Len(call[1].checksums) >= 1) =>
        LET l == call[1].checksums
        IN  /\ ret[1].raised = None
            /\ ret[1].value = IF Len(l) = 1 THEN l[1]
                              ELSE TreeHashOf(call[1].package, FoldLevel(l))

\* C20: calculate_total_tree_hash of an empty list returns the empty
\* result and does not raise, in both packages, so that a zero-byte file
\* gets to complete_multipart_upload with archiveSize 0.
C20_FoldOfEmptyList ==
    (IsFoldCall /\ ret # Nothing /\ call[1].checksums = <<>>) =>
        /\ ret[1].raised = None
        /\ ret[1].value = ""

\* C21: calculate_total_tree_hash is a function of the ordered list alone:
\* a call returns the fold of its argument, whichever object it is called
\* on, and leaves the object as it was; and it is order-sensitive: with a
\* collision-free hash, exchanging two different checksums of a list of
\* two or more gives another root.  This holds in both packages.
Swap(l, i, j) == [l EXCEPT ![i] = l[j], ![j] = l[i]]
C21_State ==
    (IsFoldCall /\ ret # Nothing /\ Len(call[1].checksums) >= 1) =>
        LET l == call[1].checksums
            pk == call[1].package
        IN  /\ ret[1].raised = None
            /\ ret[1].value = TreeHashOf(pk, l)
            /\ \A i, j \in 1..Len(l) :
                  l[i] # l[j] => TreeHashOf(pk, Swap(l, i, j)) # ret[1].value
C21_Step == IsFoldCall => UNCHANGED <<pipeVars, call>>
C21_FoldDeterministicOrdered == []C21_State /\ [][C21_Step]_vars
C21_Witness ==
    /\ IsFoldCall /\ ret # Nothing
    /\ Len(call[1].checksums) = 3
    /\ call[1].checksums[1] # call[1].checksums[3]
    /\ ret[1].raised = None

\* C22: a failure of the ledger is fatal to the run: when the SELECT of the
\* dedup check or the INSERT of the commit fails the run ends there, and
\* nothing more happens in that process: no later file is looked up,
\* uploaded or committed.
C22_Step ==
    /\ (pc = "loop" /\ outcome' = "db_error") => pc' = "exited"
    /\ (pc = "returned" /\ archive # Nothing /\ pc' # pc /\ ledger' = ledger) =>
          pc' = "exited"
    /\ pc = "exited" => Construct
C22_LedgerFailureIsFatal == [][C22_Step]_vars

\* C23: BackupUtil(args) with encryption enabled and no key, or a key
\* Fernet does not take, raises ValueError before the service client is
\* created and before the store is opened or its table created: the
\* constructor has done none of these and no object is returned.
IsInitCall == call # Nothing /\ call[1].fn = "__init__"
BadKey == IsInitCall /\ call[1].encrypt /\ call[1].encryption_key # "valid"
C23_KeyCheckedFirst ==
    (BadKey /\ ret # Nothing) =>
        /\ ret[1].raised = "ValueError"
        /\ ret[1].done = <<>>
C23_Witness ==
    /\ BadKey /\ ret # Nothing
    /\ call[1].encryption_key = None
    /\ call[1].connect_ok /\ call[1].create_ok

\* ------------------------------------------------------- claims: FileCache
Returns == {i \in 1..Len(reads) : reads[i].rv # Nothing}
RECURSIVE JoinReads(_)
\* the bytes the first k reads returned, in order
JoinReads(k) ==
    IF k = 0 THEN <<>>
    ELSE JoinReads(k - 1) \o (IF reads[k].rv = Nothing THEN <<>> ELSE reads[k].rv[1])
\* the stream a FileCache is a reader of
Stream == IF cache[1].compression THEN ZstdCompress(cache[1].f) ELSE cache[1].f
IsPrefix(a, b) == Len(a) <= Len(b) /\ SubSeq(b, 1, Len(a)) = a

\* C24: once read() has returned None, every later read(n), whatever n,
\* returns None as well, for a BytesIO, a file, a compressed stream and a
\* zero-byte source.
C24_ExhaustionIsFinal ==
    cache # Nothing =>
        \A i, j \in 1..Len(reads) :
            (i < j /\ reads[i].rv = Nothing) => reads[j].rv = Nothing
C24_Witness ==
    /\ cache # Nothing /\ cache[1].compression
    /\ Len(reads) >= 3
    /\ reads[1].rv # Nothing
    /\ reads[Len(reads) - 1].rv = Nothing
    /\ reads[Len(reads)].rv = Nothing
    /\ reads[Len(reads)].n # reads[Len(reads) - 1].n

\* C25: the empty result b'' is returned at most once, at the end of the
\* data, and every read after it returns None, for every kind of source.
C25_EmptyOnceThenNone ==
    cache # Nothing =>
        \A i \in 1..Len(reads) :
            reads[i].rv = Some(<<>>) =>
                /\ JoinReads(i) = Stream
                /\ \A j \in 1..Len(reads) : j > i => reads[j].rv = Nothing

\* C26: the chunks read() returns, joined in order, are the stream: each has
\* at most n bytes, what has been returned is always the beginning of the
\* stream, and it is the whole stream once a read came back short or None.
C26_ChunksAreTheStream ==
    cache # Nothing =>
        /\ \A i \in Returns : Len(reads[i].rv[1]) <= reads[i].n
        /\ IsPrefix(JoinReads(Len(reads)), Stream)
        /\ \A i \in 1..Len(reads) :
              (reads[i].rv = Nothing \/ Len(reads[i].rv[1]) < reads[i].n) =>
                  JoinReads(i) = Stream
C26_Witness ==
    /\ cache # Nothing /\ cache[1].compression
    /\ Len(Stream) >= 4
    /\ Len(reads) >= 4
    /\ reads[1].n = 1 /\ reads[1].rv # Nothing /\ Len(reads[1].rv[1]) = 1
    /\ reads[2].n = MaxReadSize
    /\ reads[Len(reads)].rv = Nothing
    /\ JoinReads(Len(reads)) = Stream

\* ------------------------------------------------------ claims: the ledger
\* C27: the record a commit writes carries the file_size and mtime the dedup
\* check saw for the file, also when the file changed while its upload was
\* in flight.
C27_Step ==
    (pc = "returned" /\ ledger' # ledger) =>
        /\ ledger'[Len(ledger')].path = current_file
        /\ ledger'[Len(ledger')].file_size = file_size
        /\ ledger'[Len(ledger')].mtime = mtime
C27_CommitKeepsCheckedIdentity == [][C27_Step]_vars

\* C28: the compression column of a record is one of plain, plain+zstd,
\* encrypted, encrypted+zstd and states what was done to the uploaded bytes:
\* "encrypted" iff they are the Fernet token of the content, "+zstd" iff
\* they are compressor output, the token being what is compressed when both.
IsCompressCall == call # Nothing /\ call[1].fn = "_compress"
BytesOfTag(tag, content) ==
    CASE tag = "plain" -> content
      [] tag = "plain+zstd" -> ZstdCompress(content)
      [] tag = "encrypted" -> FernetEncrypt(content)
      [] tag = "encrypted+zstd" -> ZstdCompress(FernetEncrypt(content))
C28_TagStatesTransforms ==
    (IsCompressCall /\ ret # Nothing) =>
        /\ ret[1].value.compression \in
              {"plain", "plain+zstd", "encrypted", "encrypted+zstd"}
        /\ ret[1].value.uploaded =
              BytesOfTag(ret[1].value.compression, call[1].content)

\* C29: when the process is force-stopped, at whatever point of a run, every
\* archive the service completed has a record in the ledger, so that the
\* next process does not upload an unchanged file again.
Recorded_Archive(a) == \E i \in 1..Len(ledger) : ledger[i].archive_id = a.archiveId
C29_InterruptKeepsLedger ==
    (pc = "exited" /\ outcome = "force_stop") =>
        \A a \in archives : Recorded_Archive(a)

\* C30: files are processed one at a time in listing order.  The run works
\* on at most one session, that of the file the loop is at; between two
\* files nothing is in hand; the sessions the service still holds besides
\* it belong to earlier files (their abort was issued and failed); and the
\* dedup check and every service call for a file come only after the file
\* before it has returned and its record, if any, is committed.
SessionRun(s) == s.id \div 10
SessionFile(s) == s.id % 10
C30_State ==
    /\ pc \in {"idle", "loop", "compress", "initiate", "exited", "raised"} =>
          /\ upload_id = 0 /\ archive = Nothing
          /\ sent = <<>> /\ attempts = <<>> /\ list_of_checksums = <<>>
    /\ Processing => idx <= Len(FileList) /\ current_file = FileList[idx]
    /\ upload_id # 0 => upload_id = NewUploadId
    /\ \A s \in open :
          s.id # upload_id => SessionRun(s) < run \/ SessionFile(s) < idx
C30_Step ==
    /\ idx' # idx =>
          \/ idx' = idx + 1 /\ pc \in {"loop", "returned"} /\ pc' = "loop"
          \/ idx' = 1 /\ pc = "idle"
    /\ \A s \in (open' \ open) \cup (open \ open') : s.id = NewUploadId
    /\ \A a \in archives' \ archives : a.archiveId = NewUploadId
    /\ ledger' # ledger =>
          pc = "returned" /\ ledger'[Len(ledger')].path = FileList[idx]
InUpload == pc \in {"initiate", "read", "upload", "complete", "abort"}
RunOver == pc \in {"idle", "exited", "raised"}
C31_Bound ==
    /\ Len(attempts) <= upload_part_retries
    /\ pc = "upload" => retry < upload_part_retries
    /\ pos <= Len(src_file_object)
C31_Terminates ==
    /\ []C31_Bound
    /\ InUpload ~> pc = "returned"
    /\ pc = "loop" ~> RunOver
C31_Witness ==
    /\ pc = "idle" /\ run = 1 /\ idx > Len(FileList)
    /\ Cardinality(archives) = 1
    /\ Cardinality(open) = 1

\* C32: list_incomplete_uploads and abort_multipart_upload never raise and
\* make one service call each; the listing returns the service's list as it
\* is, or [] when the call failed; the abort returns True iff its call for
\* the given id succeeded.
IsListCall == call # Nothing /\ call[1].fn = "list_incomplete_uploads"
IsAbortCall == call # Nothing /\ call[1].fn = "abort_multipart_upload"
C32_CleanupNeverRaises ==
    /\ (IsListCall /\ ret # Nothing) =>
          /\ ret[1].raised = None
          /\ ret[1].calls = <<ServiceCall("list_multipart_uploads", 0)>>
          /\ (call[1].outcome = "ok" /\ call[1].response # Nothing) =>
                ret[1].value = call[1].response[1]
          /\ call[1].outcome # "ok" => ret[1].value = <<>>
    /\ (IsAbortCall /\ ret # Nothing) =>
          /\ ret[1].raised = None
          /\ ret[1].calls = <<ServiceCall("abort_multipart_upload", call[1].upload_id)>>
          /\ ret[1].value = (call[1].outcome = "ok")
C32_Witness ==
    /\ IsListCall /\ ret # Nothing
    /\ call[1].outcome = "ok" /\ call[1].response # Nothing
    /\ Len(ret[1].value) = MaxUploads
    /\ ret[1].value[1].id # ret[1].value[2].id

\* C36: abort-all makes one abort call for each upload of the listing, in
\* the order of the listing, whatever the abort calls before it did, and
\* none when the listing failed; nothing is raised.
IsAbortAllCall == call # Nothing /\ call[1].fn = "abort_incomplete_uploads"
Listed(c) ==
    IF c.outcome = "ok" /\ c.response # Nothing THEN c.response[1] ELSE <<>>
C36_AbortAllCoversListing ==
    (IsAbortAllCall /\ ret # Nothing) =>
        /\ ret[1].raised = None
        /\ ret[1].calls =
              <<ServiceCall("list_multipart_uploads", 0)>> \o
              [k \in 1..Len(Listed(call[1])) |->
                  ServiceCall("abort_multipart_upload", Listed(call[1])[k].id)]

\* C33: when initiate_multipart_upload fails it is not called again for the
\* file: _backup returns None with no part, complete or abort call made,
\* no row is inserted, and the loop goes on with the next file.
C33_State ==
    (pc = "returned" /\ upload_id = 0) =>
        /\ archive = Nothing
        /\ sent = <<>> /\ attempts = <<>>
        /\ completes = 0 /\ aborts = 0
C33_Step ==
    /\ (pc = "initiate" /\ pc' # pc /\ upload_id' = 0) =>
          /\ pc' = "returned"
          /\ open' = open /\ archives' = archives
    /\ (pc = "returned" /\ upload_id = 0 /\ pc' # pc) =>
          /\ ledger' = ledger
          /\ open' = open /\ archives' = archives
          /\ pc' = "loop" /\ idx' = idx + 1 /\ outcome' = "failed"
C33_InitiateFailure == []C33_State /\ [][C33_Step]_vars
C33_Witness ==
    /\ pc = "returned" /\ upload_id = 0
    /\ src_file_object # <<>>
    /\ idx < Len(FileList)

\* C34: the abort call is made once and its failure changes nothing but
\* the service's state: _backup returns None as after an abort that
\* succeeded, the file is reported failed, no row is inserted, and the loop
\* goes on with the next file.
AbortFailed == pc = "returned" /\ aborts = 1 /\ \E s \in open : s.id = upload_id
C34_State ==
    /\ aborts <= 1
    /\ aborts = 1 => pc = "returned" /\ archive = Nothing /\ upload_id # 0
C34_Step ==
    /\ (pc = "abort" /\ pc' # pc) =>
          /\ pc' = "returned" /\ aborts' = 1
          /\ open' \in {open, {s \in open : s.id # upload_id}}
          /\ ledger' = ledger /\ archives' = archives
    /\ (pc = "returned" /\ aborts = 1 /\ pc' # pc) =>
          /\ ledger' = ledger
          /\ open' = open /\ archives' = archives
          /\ pc' = "loop" /\ idx' = idx + 1 /\ outcome' = "failed"
          /\ continue_running' = continue_running
C34_AbortIsBestEffort == []C34_State /\ [][C34_Step]_vars
C34_Witness ==
    /\ pc = "loop" /\ outcome = "failed" /\ idx = 2
    /\ run = 1
    /\ \E s \in open : s.id = 10 * run + 1

\* C35: calculate_tree_hash(part, part_size) of a non-empty part is the
\* fold of the SHA-256 digests of its consecutive sub-blocks, which cover
\* every byte of the part (ceil(len / sub-block) of them, the last one
\* possibly shorter), whatever part_size is given.
IsPartHashCall == call # Nothing /\ call[1].fn = "calculate_tree_hash"
Leaves(part) ==
    [k \in 1..CeilDiv(Len(part), SubBlock) |->
        Hexlify(Sha256(DataBytes(SubSeq(part, (k - 1) * SubBlock + 1,
                                        IF k * SubBlock <= Len(part) THEN k * SubBlock
                                        ELSE Len(part)))))]
C35_PartHashCoversPart ==
    (IsPartHashCall /\ ret # Nothing /\ call[1].part # <<>>) =>
        /\ ret[1].raised = None
        /\ ret[1].value = FoldChecksums(Leaves(call[1].part))

\* C37: a caller that reads with one n until read() returns None gets the
\* None after finitely many reads: every read before the end returns at
\* least one byte, so the None comes within len(stream) + 2 reads.
FixedN == \A i, j \in 1..Len(reads) : reads[i].n = reads[j].n
C37_ReadLoopTerminates ==
    (cache # Nothing /\ FixedN /\ Len(reads) >= Len(Stream) + 2) =>
        \E i \in 1..Len(reads) : reads[i].rv = Nothing

\* C38: a session that initiate opened is not left behind by _backup: when
\* _backup is over, either complete succeeded for the session or an abort
\* call was made for it, whether a part or the completion failed.
IsBackupCall == call # Nothing /\ call[1].fn = "_backup"
Made(op) == \E i \in 1..Len(ret[1].calls) : ret[1].calls[i].op = op
C38_NoSessionLeftOpen ==
    (IsBackupCall /\ ret # Nothing /\ call[1].initiate = "ok") =>
        \/ ret[1].value # Nothing /\ Made("complete_multipart_upload")
        \/ Made("abort_multipart_upload")

\* C39: signals escalate by count.  The first and the second only clear
\* continue_running: the step of backup() in hand, the upload's state, the
\* service and the connection stay as they are.  The third closes the
\* connection and ends the process there, with no complete or abort call
\* for the session in flight.
C39_State ==
    /\ stop_request_count <= FORCE_STOP_LIMIT
    /\ stop_request_count >= 1 => ~continue_running
    /\ conn = "closed" <=> stop_request_count = FORCE_STOP_LIMIT
    /\ stop_request_count = FORCE_STOP_LIMIT => pc = "exited"
C39_Step ==
    /\ stop_request_count' \in {stop_request_count, stop_request_count + 1, 0}
    /\ (stop_request_count' = stop_request_count + 1 /\ stop_request_count' < FORCE_STOP_LIMIT) =>
          /\ ~continue_running'
          /\ UNCHANGED <<conn, ledger, loopVars, upVars, svcVars, sessHist>>
    /\ (stop_request_count' = stop_request_count + 1 /\ stop_request_count' = FORCE_STOP_LIMIT) =>
          /\ conn' = "closed"
          /\ pc' = "exited"
          /\ UNCHANGED <<ledger, svcVars>>
C39_SignalsEscalate == []C39_State /\ [][C39_Step]_vars
C39_Witness ==
    /\ stop_request_count = FORCE_STOP_LIMIT
    /\ pc = "exited" /\ conn = "closed"
    /\ \E s \in open : s.id = NewUploadId
    /\ \A a \in archives : a.archiveId # NewUploadId
====
